---- MODULE Spec2Model ----
(***************************************************************************)
(* Model of aeroports_proximite.py: the module-level load of the airport   *)
(* table (lines 11-21), the lookup get_airport_info (23-37), the nearest   *)
(* query find_nearby_airports (39-56) and the request handler index        *)
(* (99-136) with the map it saves (create_map, 58-90).                     *)
(*                                                                         *)
(* Three specifications share the state:                                   *)
(*   Spec    - the load, then find_nearby_airports called one call at a    *)
(*             time with arbitrary arguments (the function's contract);    *)
(*   SpecWeb - the load, then whole requests to index, one at a time;      *)
(*   SpecPar - the load, then request threads running line 125's call of   *)
(*             find_nearby_airports interleaved statement by statement.    *)
(*                                                                         *)
(* Conventions.  An optional value (Python None / a value) is a sequence   *)
(* of length 0 or 1.  A code is a sequence of one-character strings, so    *)
(* that str.upper() is computed character by character.  A cell of the     *)
(* CSV is text; pandas' float parsing is ParseFloat.  shapely's            *)
(* Point.distance is sqrt(dx^2 + dy^2); the model keeps the exact radicand *)
(* dx^2 + dy^2 in the "distance" column, which orders and ties exactly as  *)
(* the root does on the integer coordinates used here.  DataFrame.nsmallest*)
(* is modelled with its documented keep="first" order.  Cells that are     *)
(* empty in a coordinate column (NaN coordinates) are not part of the      *)
(* inputs enumerated here.                                                 *)
(***************************************************************************)
EXTENDS Integers, Sequences, FiniteSets, TLC

VARIABLES
    source,      \* csv/airports.csv: the rows as written in the file
    loaded,      \* "no" before the import, "ok" after it, "failed" if it raised
    airports,    \* the module-level GeoDataFrame (line 21), a sequence of rows
    last_call,   \* the find_nearby_airports call of the last operation, if it made one
    response,    \* what index handed to render_template for the last request
    request,     \* the form of the last request handled by index
    map_file,    \* the contents of static/map.html
    pc,          \* SpecPar: each request thread's position in find_nearby_airports
    frame        \* SpecPar: each request thread's arguments and local DataFrame

vars == <<source, loaded, airports, last_call, request, response, map_file, pc, frame>>

-----------------------------------------------------------------------------
(* Bounds of the model *)

\* the longest CSV enumerated
MaxRows == 3
\* the largest max_results passed by a direct call
MaxLimit == 2
\* the number of request threads of SpecPar
NumThreads == 2

(* Program constants *)

\* max_results=4, the default the handler relies on
DefaultMaxResults == 4

None == << >>
Some(x) == << x >>

\* pandas reads an empty cell as NaN; NaN compares unequal to everything
NaNCode == << >>
\* marks a DataFrame that has no "distance" column yet
NoDistance == -1

Threads == 1..NumThreads

-----------------------------------------------------------------------------
(* The inputs *)

\* rows a CSV may hold: three airports on a line, a lower-case ident, a row
\* with an empty ident and a latitude out of range, a non-numeric latitude
RowPool ==
    { [ident |-> <<"A">>, name |-> "Alpha",   type |-> "large_airport",
       latitude_deg |-> "0", longitude_deg |-> "0"],
      [ident |-> <<"B">>, name |-> "Bravo",   type |-> "medium_airport",
       latitude_deg |-> "0", longitude_deg |-> "1"],
      [ident |-> <<"C">>, name |-> "Charlie", type |-> "large_airport",
       latitude_deg |-> "0", longitude_deg |-> "2"],
      [ident |-> <<"d">>, name |-> "Delta",   type |-> "medium_airport",
       latitude_deg |-> "1", longitude_deg |-> "0"],
      [ident |-> NaNCode, name |-> "Echo",    type |-> "large_airport",
       latitude_deg |-> "91", longitude_deg |-> "1"],
      [ident |-> <<"F">>, name |-> "Foxtrot", type |-> "medium_airport",
       latitude_deg |-> "abc", longitude_deg |-> "1"] }

Sources == UNION { [1..n -> RowPool] : n \in 0..MaxRows }

\* the airport_type values of the form, "all" being the wildcard
TypeFilters == {"large_airport", "medium_airport", "all"}

\* reference positions of direct calls (Point(lon, lat): x is the longitude)
RefPoints == { [x |-> 0, y |-> 0], [x |-> 1, y |-> 0], [x |-> 1, y |-> 1] }

\* exclude_oaci values of direct calls
ExcludeCodes == { <<"A">>, <<"d">> }

\* code_oaci values typed into the form
RequestCodes == { <<"a">>, <<"B">>, <<"d">>, <<"z">> }

-----------------------------------------------------------------------------
(* Text and numbers *)

\* str.upper() on one character
UpperChar(c) ==
    CASE c = "a" -> "A"
      [] c = "d" -> "D"
      [] c = "z" -> "Z"
      [] OTHER   -> c

\* str.upper()
upper(s) == [i \in DOMAIN s |-> UpperChar(s[i])]

\* whether pandas/float() can parse the cell as a number
IsNumeric(cell) == cell \in {"0", "1", "2", "91"}

\* float(cell) of a numeric cell
ParseFloat(cell) ==
    CASE cell = "0"  -> 0
      [] cell = "1"  -> 1
      [] cell = "2"  -> 2
      [] cell = "91" -> 91

\* airports["code_oaci"] == code, on one cell
CodeEq(cell, code) == cell # NaNCode /\ cell = code

\* Point.distance (the radicand, see the header)
distance(p, q) == (p.x - q.x) * (p.x - q.x) + (p.y - q.y) * (p.y - q.y)

-----------------------------------------------------------------------------
(* The load, lines 11-21 *)

\* Point(xy) raises on a cell that float() rejects
LoadRaises(src) ==
    \E i \in DOMAIN src :
        ~IsNumeric(src[i].latitude_deg) \/ ~IsNumeric(src[i].longitude_deg)

\* one row of the GeoDataFrame: the renamed columns and the geometry
LoadRow(i, row) ==
    [ idx       |-> i,
      code_oaci |-> row.ident,
      name      |-> row.name,
      type      |-> row.type,
      lat       |-> ParseFloat(row.latitude_deg),
      lon       |-> ParseFloat(row.longitude_deg),
      geometry  |-> [x |-> ParseFloat(row.longitude_deg),
                     y |-> ParseFloat(row.latitude_deg)],
      distance  |-> NoDistance ]

\* the GeoDataFrame built from the CSV: every row of the file, in file order
LoadFrame(src) == [i \in DOMAIN src |-> LoadRow(i, src[i])]

-----------------------------------------------------------------------------
(* get_airport_info, lines 23-37 *)

\* airports[airports["code_oaci"] == code_oaci]
RowsWithCode(df, code_oaci) ==
    SelectSeq(df, LAMBDA r : CodeEq(r.code_oaci, code_oaci))

get_airport_info(df, code_oaci) ==
    LET airport == RowsWithCode(df, code_oaci)
    IN  IF airport = << >>
        THEN None
        ELSE Some([ name     |-> airport[1].name,
                    type     |-> airport[1].type,
                    geometry |-> airport[1].geometry ])

-----------------------------------------------------------------------------
(* find_nearby_airports, lines 39-56, statement by statement *)

\* mutant of SetDistance: the column is filled only where it is still missing
SetDistance_once(df, geometry) ==
    [i \in DOMAIN df |->
        IF df[i].distance = NoDistance
        THEN [df[i] EXCEPT !.distance = distance(df[i].geometry, geometry)]
        ELSE df[i]]

\* line 49: airports["distance"] = airports["geometry"].distance(geometry)
SetDistance(df, geometry) ==
    [i \in DOMAIN df |->
        [df[i] EXCEPT !.distance = distance(df[i].geometry, geometry)]]

\* mutant of ExcludeCode: the reference airport is not removed
ExcludeCode_keep(df, exclude_oaci) == df

\* line 50: airports[airports["code_oaci"] != exclude_oaci], a copy
ExcludeCode(df, exclude_oaci) ==
    SelectSeq(df, LAMBDA r : ~CodeEq(r.code_oaci, exclude_oaci))

\* mutant of FilterType: the filter is never applied
FilterType_skip(df, selected_type) == df

\* lines 53-54: the type filter, skipped for "all"
FilterType(df, selected_type) ==
    IF selected_type # "all"
    THEN SelectSeq(df, LAMBDA r : r.type = selected_type)
    ELSE df

\* position of the first row holding the smallest distance
FirstMin(df) ==
    CHOOSE i \in DOMAIN df :
        /\ \A j \in DOMAIN df : df[i].distance <= df[j].distance
        /\ \A j \in 1..(i - 1) : df[j].distance > df[i].distance

\* df without its i-th row
DropRow(df, i) == SubSeq(df, 1, i - 1) \o SubSeq(df, i + 1, Len(df))

\* mutant of nsmallest: the first n rows in table order, head(n)
nsmallest_head(df, n) ==
    SubSeq(df, 1, IF n <= Len(df) THEN n ELSE Len(df))

\* line 56: DataFrame.nsmallest(n, "distance"), keep="first"
RECURSIVE nsmallest(_, _)
nsmallest(df, n) ==
    IF n <= 0 \/ df = << >>
    THEN << >>
    ELSE LET i == FirstMin(df)
         IN  << df[i] >> \o nsmallest(DropRow(df, i), n - 1)

\* mutant of NearbyOf: one row more than asked for
NearbyOf_plus(df, selected_type, exclude_oaci, max_results) ==
    nsmallest(FilterType(ExcludeCode(df, exclude_oaci), selected_type),
              max_results + 1)

\* the value find_nearby_airports returns, given the table line 49 left
NearbyOf(df, selected_type, exclude_oaci, max_results) ==
    nsmallest(FilterType(ExcludeCode(df, exclude_oaci), selected_type),
              max_results)

\* a completed call: its arguments and the DataFrame it returned
Call(geometry, selected_type, exclude_oaci, max_results, result) ==
    [ geometry     |-> geometry,
      selected_type |-> selected_type,
      exclude_oaci |-> exclude_oaci,
      max_results  |-> max_results,
      result       |-> result ]

-----------------------------------------------------------------------------
(* create_map, lines 58-90: what the saved map shows *)

\* one green marker per nearby airport: place, name, popup distance
Markers(nearby_airports) ==
    [i \in DOMAIN nearby_airports |->
        [ lat      |-> nearby_airports[i].geometry.y,
          lon      |-> nearby_airports[i].geometry.x,
          name     |-> nearby_airports[i].name,
          distance |-> nearby_airports[i].distance ]]

create_map(lat, lon, airport_name, nearby_airports) ==
    [ location |-> <<lat, lon>>,
      main     |-> airport_name,
      markers  |-> Markers(nearby_airports) ]

-----------------------------------------------------------------------------
(* The state machine *)

NoFrame == [ geometry |-> [x |-> 0, y |-> 0], selected_type |-> "all",
             exclude_oaci |-> NaNCode, filtered |-> << >>, result |-> << >> ]

Init ==
    /\ source \in Sources
    /\ loaded = "no"
    /\ airports = << >>
    /\ last_call = None
    /\ request = None
    /\ response = None
    /\ map_file = None
    /\ pc = [t \in Threads |-> "idle"]
    /\ frame = [t \in Threads |-> NoFrame]

\* the import of the module, lines 11-21
Load ==
    /\ loaded = "no"
    /\ IF LoadRaises(source)
       THEN loaded' = "failed" /\ airports' = airports
       ELSE loaded' = "ok" /\ airports' = LoadFrame(source)
    /\ UNCHANGED <<source, last_call, request, response, map_file, pc, frame>>

\* one call of find_nearby_airports, lines 49-56
FindNearby ==
    /\ loaded = "ok"
    /\ \E geometry \in RefPoints, selected_type \in TypeFilters,
          exclude_oaci \in ExcludeCodes, max_results \in 1..MaxLimit :
          /\ airports' = SetDistance(airports, geometry)
          /\ last_call' = Some(Call(geometry, selected_type, exclude_oaci,
                                    max_results,
                                    NearbyOf(airports', selected_type,
                                             exclude_oaci, max_results)))
    /\ UNCHANGED <<source, loaded, request, response, map_file, pc, frame>>

\* index on a GET, lines 106-109 and 136
IndexGet ==
    /\ loaded = "ok"
    /\ request' = Some([method |-> "GET", code_oaci |-> << >>,
                        airport_type |-> "all", show_nearby |-> FALSE])
    /\ response' = Some([ airport_name |-> None, airport_type |-> None,
                          code_oaci |-> <<"L", "F", "M", "K">>,
                          map_path |-> None ])
    /\ last_call' = None
    /\ UNCHANGED <<source, loaded, airports, map_file, pc, frame>>

\* index on a POST whose code is in the table, lines 118-132 and 136
PostFound(code_oaci, selected_type, show_nearby, info) ==
    LET geometry == info.geometry
        lat == geometry.y
        lon == geometry.x
        df == IF show_nearby THEN SetDistance(airports, geometry) ELSE airports
        nearby_airports ==
            IF show_nearby
            THEN NearbyOf(df, selected_type, code_oaci, DefaultMaxResults)
            ELSE << >>
    IN  /\ airports' = df
        /\ last_call' = IF show_nearby
                        THEN Some(Call(geometry, selected_type, code_oaci,
                                       DefaultMaxResults, nearby_airports))
                        ELSE None
        /\ map_file' = Some(create_map(lat, lon, info.name, nearby_airports))
        /\ response' = Some([ airport_name |-> Some(info.name),
                              airport_type |-> Some(info.type),
                              code_oaci |-> code_oaci,
                              map_path |-> Some("static/map.html") ])

\* mutant of PostNotFound: the page still points at the map on disk
PostNotFound_map(code_oaci) ==
    /\ response' = Some([ airport_name |-> Some("Aeroport non trouve"),
                          airport_type |-> None,
                          code_oaci |-> code_oaci,
                          map_path |-> Some("static/map.html") ])
    /\ last_call' = None
    /\ UNCHANGED <<airports, map_file>>

\* index on a POST whose code is not in the table, lines 133-136
\* (the name stands for the handler's message, written without accents)
PostNotFound(code_oaci) ==
    /\ response' = Some([ airport_name |-> Some("Aeroport non trouve"),
                          airport_type |-> None,
                          code_oaci |-> code_oaci,
                          map_path |-> None ])
    /\ last_call' = None
    /\ UNCHANGED <<airports, map_file>>

\* index on a POST, lines 111-136
IndexPost ==
    /\ loaded = "ok"
    /\ \E form_code \in RequestCodes, selected_type \in TypeFilters,
          show_nearby \in BOOLEAN :
          LET code_oaci == upper(form_code)
              airport_info == get_airport_info(airports, code_oaci)
          IN  /\ request' = Some([method |-> "POST", code_oaci |-> form_code,
                                  airport_type |-> selected_type,
                                  show_nearby |-> show_nearby])
              /\ IF airport_info # None
                 THEN PostFound(code_oaci, selected_type, show_nearby,
                                airport_info[1])
                 ELSE PostNotFound(code_oaci)
    /\ UNCHANGED <<source, loaded, pc, frame>>

Next == Load \/ FindNearby

Spec == Init /\ [][Next]_vars

NextWeb == Load \/ IndexGet \/ IndexPost

SpecWeb == Init /\ [][NextWeb]_vars

-----------------------------------------------------------------------------
(* SpecPar: request threads inside find_nearby_airports.  The table is the  *)
(* module-level airports; everything else is local to the thread.           *)

\* index, lines 112-125: the request is parsed, the airport found, and
\* find_nearby_airports is entered with its geometry and code
T_Call(t) ==
    /\ loaded = "ok"
    /\ pc[t] = "idle"
    /\ \E form_code \in RequestCodes, selected_type \in TypeFilters :
          LET code_oaci == upper(form_code)
              airport_info == get_airport_info(airports, code_oaci)
          IN  /\ airport_info # None
              /\ frame' = [frame EXCEPT ![t] =
                    [ geometry |-> airport_info[1].geometry,
                      selected_type |-> selected_type,
                      exclude_oaci |-> code_oaci,
                      filtered |-> << >>, result |-> << >> ]]
    /\ pc' = [pc EXCEPT ![t] = "l49"]
    /\ UNCHANGED <<source, loaded, airports, last_call, request, response,
                   map_file>>

\* line 49 writes the shared table's distance column
T_L49(t) ==
    /\ pc[t] = "l49"
    /\ airports' = SetDistance(airports, frame[t].geometry)
    /\ pc' = [pc EXCEPT ![t] = "l50"]
    /\ UNCHANGED <<source, loaded, last_call, request, response, map_file,
                   frame>>

\* line 50 reads the shared table into the local filtered_airports
T_L50(t) ==
    /\ pc[t] = "l50"
    /\ frame' = [frame EXCEPT ![t].filtered =
                    ExcludeCode(airports, frame[t].exclude_oaci)]
    /\ pc' = [pc EXCEPT ![t] = "l53"]
    /\ UNCHANGED <<source, loaded, airports, last_call, request, response,
                   map_file>>

\* lines 53-54
T_L53(t) ==
    /\ pc[t] = "l53"
    /\ frame' = [frame EXCEPT ![t].filtered =
                    FilterType(frame[t].filtered, frame[t].selected_type)]
    /\ pc' = [pc EXCEPT ![t] = "l56"]
    /\ UNCHANGED <<source, loaded, airports, last_call, request, response,
                   map_file>>

\* line 56: the value returned to line 125
T_L56(t) ==
    /\ pc[t] = "l56"
    /\ frame' = [frame EXCEPT ![t].result =
                    nsmallest(frame[t].filtered, DefaultMaxResults)]
    /\ pc' = [pc EXCEPT ![t] = "ret"]
    /\ UNCHANGED <<source, loaded, airports, last_call, request, response,
                   map_file>>

\* the handler consumes the result and the thread takes the next request
T_Ret(t) ==
    /\ pc[t] = "ret"
    /\ frame' = [frame EXCEPT ![t] = NoFrame]
    /\ pc' = [pc EXCEPT ![t] = "idle"]
    /\ UNCHANGED <<source, loaded, airports, last_call, request, response,
                   map_file>>

NextPar ==
    \/ Load
    \/ \E t \in Threads :
          T_Call(t) \/ T_L49(t) \/ T_L50(t) \/ T_L53(t) \/ T_L56(t) \/ T_Ret(t)

SpecPar == Init /\ [][NextPar]_vars

-----------------------------------------------------------------------------
(* Properties.  The helpers below restate the contract in its own terms;    *)
(* none of them is used by the actions.                                      *)

\* the table as the load left it, before any query
Loaded == LoadFrame(source)

\* a row's columns other than the transient distance
Data(r) == [r EXCEPT !.distance = NoDistance]

\* planar Euclidean distance (squared) between a row's raw (lat, lon) pair
\* and a reference point
Planar(r, ref) ==
    (r.lat - ref.y) * (r.lat - ref.y) + (r.lon - ref.x) * (r.lon - ref.x)

\* the row is a candidate of call c: its code differs from exclude_oaci and
\* its kind passes the filter
Qualifies(r, c) ==
    /\ r.code_oaci # c.exclude_oaci
    /\ c.selected_type = "all" \/ r.type = c.selected_type

\* index labels of the rows call c returned
ResultIdx(c) == { c.result[i].idx : i \in DOMAIN c.result }

\* positions of the table's rows that are candidates of call c
Candidates(c) == { j \in DOMAIN Loaded : Qualifies(Loaded[j], c) }

Min(a, b) == IF a <= b THEN a ELSE b

\* C1: a query leaves the loaded collection as it was: same records, same
\* fields, same field values.
C1_QueryLeavesCollectionUnchanged ==
    [][loaded = "ok" => airports' = airports]_vars

\* C3: the result is ascending by distance, every reported distance is the
\* planar Euclidean distance of the row's raw (lat, lon) to the reference,
\* the rows are distinct candidates of the table, and no candidate left out
\* is strictly closer to the reference than a row of the result.
C3_NearestInAscendingOrder ==
    last_call # None =>
        LET c == last_call[1]
            r == c.result
        IN  /\ \A i \in 1..(Len(r) - 1) : r[i].distance <= r[i + 1].distance
            /\ \A i \in DOMAIN r :
                  /\ r[i].distance = Planar(r[i], c.geometry)
                  /\ r[i].idx \in Candidates(c)
                  /\ Data(r[i]) = Loaded[r[i].idx]
            /\ \A i, k \in DOMAIN r : i # k => r[i].idx # r[k].idx
            /\ \A j \in Candidates(c) \ ResultIdx(c) :
                  \A i \in DOMAIN r :
                      Planar(Loaded[j], c.geometry) >= r[i].distance

\* C3 witness: a call cut by its limit that returned two rows at different
\* distances and left a farther candidate out.
C3_Witness ==
    /\ last_call # None
    /\ Len(last_call[1].result) = 2
    /\ last_call[1].result[1].distance < last_call[1].result[2].distance
    /\ last_call[1].result[1].idx > last_call[1].result[2].idx
    /\ Candidates(last_call[1]) \ ResultIdx(last_call[1]) # {}

\* C4: under a filter other than "all" every returned row has that kind;
\* under "all" a row whose code is not excluded is left out only by the
\* limit, never for its kind.
C4_TypeFilter ==
    last_call # None =>
        LET c == last_call[1]
            r == c.result
        IN  /\ c.selected_type # "all" =>
                  \A i \in DOMAIN r : r[i].type = c.selected_type
            /\ c.selected_type = "all" =>
                  \A j \in DOMAIN Loaded :
                      (Loaded[j].code_oaci # c.exclude_oaci
                          /\ j \notin ResultIdx(c))
                      => Len(r) = c.max_results

\* C4 witness: a filtered call that returned a row although a row of
\* another kind, not excluded, is closer to the reference.
C4_Witness ==
    /\ last_call # None
    /\ last_call[1].selected_type # "all"
    /\ last_call[1].result # << >>
    /\ \E j \in DOMAIN Loaded :
          /\ Loaded[j].type # last_call[1].selected_type
          /\ Loaded[j].code_oaci # last_call[1].exclude_oaci
          /\ Planar(Loaded[j], last_call[1].geometry)
                < last_call[1].result[1].distance

\* C5: the result never contains a row whose code equals exclude_oaci.
C5_ExcludedNeverReturned ==
    last_call # None =>
        \A i \in DOMAIN last_call[1].result :
            last_call[1].result[i].code_oaci # last_call[1].exclude_oaci

\* C5 witness: the reference is the excluded airport itself (distance 0 to
\* the reference point), and the call returned other rows.
C5_Witness ==
    /\ last_call # None
    /\ last_call[1].result # << >>
    /\ \E j \in DOMAIN Loaded :
          /\ Loaded[j].code_oaci = last_call[1].exclude_oaci
          /\ Loaded[j].geometry = last_call[1].geometry

\* C6: the result has min(limit, number of candidates) rows: never more than
\* the limit, exactly the limit when enough candidates exist, and empty when
\* there is none.
C6_ResultLength ==
    last_call # None =>
        Len(last_call[1].result)
            = Min(last_call[1].max_results,
                  Cardinality(Candidates(last_call[1])))

\* C6 witness: more candidates than the limit, and a result of limit rows.
C6_Witness ==
    /\ last_call # None
    /\ Cardinality(Candidates(last_call[1])) > last_call[1].max_results
    /\ Len(last_call[1].result) = last_call[1].max_results

\* the rows a call on the freshly loaded table returns for c's arguments
FreshResult(c) ==
    LET RECURSIVE Pick(_, _)
        \* the n nearest of the candidate positions S, ties by table order
        Pick(S, n) ==
            IF n = 0 \/ S = {}
            THEN << >>
            ELSE LET j == CHOOSE j \in S :
                            \A k \in S :
                                \/ Planar(Loaded[j], c.geometry)
                                      < Planar(Loaded[k], c.geometry)
                                \/ /\ Planar(Loaded[j], c.geometry)
                                        = Planar(Loaded[k], c.geometry)
                                   /\ j <= k
                 IN  << [Loaded[j] EXCEPT
                            !.distance = Planar(Loaded[j], c.geometry)] >>
                     \o Pick(S \ {j}, n - 1)
    IN  Pick(Candidates(c), c.max_results)

\* C7: a query's ordered result is determined by the loaded table and the
\* query's arguments alone (ties fall in table order), so repeating a query
\* yields the same result whatever queries ran before it or in between.
C7_RepeatableResult ==
    last_call # None => last_call[1].result = FreshResult(last_call[1])

\* C7 witness: a call that ranked two candidates at equal distance, made on
\* a table still holding the distances of an earlier, different query.
C7_Witness ==
    /\ last_call # None
    /\ Len(last_call[1].result) = 2
    /\ last_call[1].result[1].distance = last_call[1].result[2].distance
    /\ last_call[1].result[1].idx # last_call[1].result[2].idx

\* the result a call made alone on the loaded table returns for the
\* arguments thread t entered find_nearby_airports with
AloneResult(t) ==
    FreshResult(Call(frame[t].geometry, frame[t].selected_type,
                     frame[t].exclude_oaci, DefaultMaxResults, << >>))

\* C2: whatever the interleaving, a call returns exactly what it would have
\* returned running alone: same rows, same order, distances measured from
\* its own reference.
C2_ParallelCallsIsolated ==
    \A t \in Threads : pc[t] = "ret" => frame[t].result = AloneResult(t)

\* str.strip().upper(): the normalisation the contract gives to codes
\* (no code enumerated here carries surrounding blanks)
Normalized(code) == [i \in DOMAIN code |-> UpperChar(code[i])]

\* the last request is a POST
IsPost == request # None /\ request[1].method = "POST"

\* the response of the last request reports an airport
Found == response # None /\ response[1].map_path # None

\* C8: a code written in the source, in whatever letter case, is found when
\* looked up, and the record found carries its normalized code.
C8_LookupRoundTrip ==
    (IsPost /\ \E i \in DOMAIN source :
                  /\ source[i].ident # NaNCode
                  /\ Normalized(source[i].ident)
                        = Normalized(request[1].code_oaci))
    => /\ Found
       /\ response[1].code_oaci = Normalized(request[1].code_oaci)

\* the requested code, upper-cased, is the code of a row of the table
InTable == \E j \in DOMAIN airports :
              airports[j].code_oaci = upper(request[1].code_oaci)

\* the first row of the table holding the requested code
FirstOf ==
    LET j == CHOOSE j \in DOMAIN airports :
                /\ airports[j].code_oaci = upper(request[1].code_oaci)
                /\ \A k \in 1..(j - 1) :
                      airports[k].code_oaci # upper(request[1].code_oaci)
    IN  airports[j]

\* what C9 says of the state a POST leaves
C9_After ==
    IsPost =>
        /\ ~InTable =>
              /\ response[1].airport_name = Some("Aeroport non trouve")
              /\ response[1].airport_type = None
              /\ response[1].map_path = None
              /\ last_call = None
        /\ InTable =>
              /\ response[1].airport_name = Some(FirstOf.name)
              /\ response[1].airport_type = Some(FirstOf.type)
              /\ response[1].map_path = Some("static/map.html")
              /\ map_file # None
              /\ map_file[1].main = FirstOf.name
              /\ request[1].show_nearby =>
                    /\ last_call # None
                    /\ last_call[1].result = FreshResult(last_call[1])
                    /\ Len(map_file[1].markers) = Len(last_call[1].result)
              /\ ~request[1].show_nearby =>
                    /\ last_call = None
                    /\ map_file[1].markers = << >>

\* C9: a POST for a code that is not in the table answers "not found", runs
\* no nearby query and writes no map; a POST for a code that is in the table
\* answers with the airport and a map, the nearby list being empty (no
\* error) when no candidate qualifies; the two answers differ in map_path.
C9_NotFoundVersusEmpty ==
    /\ []C9_After
    /\ [][ (IsPost' /\ ~InTable') =>
               (map_file' = map_file /\ airports' = airports) ]_vars

\* C9 witness: an airport found, its nearby query run, no candidate
\* qualifying although the table holds other rows: an empty list and a map.
C9_Witness ==
    /\ IsPost
    /\ Found
    /\ request[1].show_nearby
    /\ Len(airports) > 1
    /\ last_call # None
    /\ last_call[1].result = << >>
    /\ map_file # None
    /\ map_file[1].markers = << >>

\* the row is well formed: a code, and a latitude and longitude that parse
\* as numbers within [-90, 90] and [-180, 180]
ValidRow(row) ==
    /\ row.ident # NaNCode
    /\ IsNumeric(row.latitude_deg)
    /\ IsNumeric(row.longitude_deg)
    /\ ParseFloat(row.latitude_deg) >= -90
    /\ ParseFloat(row.latitude_deg) <= 90
    /\ ParseFloat(row.longitude_deg) >= -180
    /\ ParseFloat(row.longitude_deg) <= 180

\* C10: the load never fails because of a malformed row, and the loaded
\* collection holds exactly the well-formed rows of the source.
C10_LoadSkipsMalformedRows ==
    loaded # "no" =>
        /\ loaded = "ok"
        /\ [j \in DOMAIN airports |-> airports[j].name]
              = [j \in DOMAIN SelectSeq(source, ValidRow) |->
                    SelectSeq(source, ValidRow)[j].name]

====
